---------------------------- MODULE Spec2Model ----------------------------
(* A model of the camera application: the detection view (FaceDetection),  *)
(* the capture view (WebcamCapture) and the save endpoint (POST            *)
(* /api/save-image).  One view instance is mounted per behaviour; the      *)
(* endpoint is modelled as a request handler of its own.                   *)
EXTENDS Integers, Sequences, FiniteSets, TLC

(***************************************************************************)
(* Bounds of the model.                                                    *)
(***************************************************************************)
\* getUserMedia calls made by one view instance
MaxGum == 3
\* inference calls started by one view instance
MaxFrames == 3
\* save requests sent by one view instance
MaxSaves == 2
\* tokens of the image string of a request to the save endpoint
MaxImageLen == 4

(***************************************************************************)
(* Program constants.                                                      *)
(***************************************************************************)
VideoWidth == 640
VideoHeight == 480
Percent == 100
RandomByteCount == 16

NoStream == 0
NoFile == 0
\* the detector's result when it finds no face (undefined)
NoFace == [box |-> FALSE, expressions |-> <<>>]

\* the default bitmap of a canvas element and the bitmap after a clear
BlankCanvas == [box |-> FALSE, text |-> ""]

\* Object.entries order of the expression mapping of the detector
Labels == <<"neutral", "happy", "sad">>
\* confidences in thousandths (900 is 0.9)
ConfValues == {50, 455, 900}
\* the detection results of the detector: no face, or a box and a mapping
Expressions == [1..Len(Labels) -> ConfValues]
Detections == {NoFace} \cup [box : {TRUE}, expressions : Expressions]

(***************************************************************************)
(* Overlay renderer: the pure part of detectExpressions.                   *)
(***************************************************************************)
\* Object.entries(expressions): the <<label, confidence>> pairs in order
Entries(expressions) ==
    [i \in 1..Len(Labels) |-> <<Labels[i], expressions[i]>>]

\* a reducer with the comparison reversed
DominantPickLess(a, b) == IF a[2] < b[2] THEN a ELSE b

\* a reducer that keeps the accumulator on equal confidences
DominantPickGeq(a, b) == IF a[2] >= b[2] THEN a ELSE b

\* the reducer (a, b) => a[1] > b[1] ? a : b: the accumulator a is kept only
\* when it is strictly greater, so on equal confidences the later entry b
\* replaces it
DominantPick(a, b) == IF a[2] > b[2] THEN a ELSE b

\* Array.prototype.reduce without an initial value: the accumulator starts
\* at the first entry and the callback runs on the entries after it
RECURSIVE ReduceFrom(_, _, _)
ReduceFrom(entries, acc, i) ==
    IF i > Len(entries) THEN acc
    ELSE ReduceFrom(entries, DominantPick(acc, entries[i]), i + 1)

DominantExpression(expressions) ==
    LET entries == Entries(expressions)
    IN  ReduceFrom(entries, entries[1], 2)

\* Math.round(c * 100) on a confidence of c thousandths: halves round up
RoundPercent(c) == (c * Percent + 500) \div 1000

\* `${dominantExpression[0]}: ${Math.round(dominantExpression[1] * 100)}%`
LabelText(entry) == entry[1] \o ": " \o ToString(RoundPercent(entry[2])) \o "%"


(***************************************************************************)
(* Save endpoint: the pure parts of POST.                                  *)
(***************************************************************************)
\* Strings are sequences of tokens: the literal "data:image/", the word
\* characters "png" and "w", the literal ";base64,", the base64 character
\* "+" that is no word character, and "!" that is neither
Tokens == {"data:image/", "png", "w", ";base64,", "+", "!"}
WordTokens == {"png", "w"}

\* strings of at most MaxImageLen tokens
RECURSIVE StringsUpTo(_)
StringsUpTo(n) ==
    IF n = 0 THEN {<<>>}
    ELSE LET shorter == StringsUpTo(n - 1)
         IN  shorter \cup {Append(s, t) : s \in {x \in shorter : Len(x) = n - 1},
                                          t \in Tokens}
Strings == StringsUpTo(MaxImageLen)

\* the request bodies: not JSON, the JSON null, an object without image, an
\* object whose image is no string, an object whose image is a string
Bodies ==
    [kind : {"notjson", "null", "noimage", "nonstring"}, image : {<<>>}]
        \cup [kind : {"string"}, image : Strings]

\* the length of the run of word characters of s that starts at token i
RECURSIVE WordRun(_, _)
WordRun(s, i) ==
    IF i <= Len(s) /\ s[i] \in WordTokens THEN 1 + WordRun(s, i + 1) ELSE 0

\* image.replace(/^data:image\/\w+;base64,/, "")
StripPrefix(s) ==
    LET n == WordRun(s, 2)
    IN  IF /\ Len(s) >= 1 /\ s[1] = "data:image/"
           /\ n >= 1
           /\ Len(s) >= n + 2 /\ s[n + 2] = ";base64,"
        THEN SubSeq(s, n + 3, Len(s))
        ELSE s

\* the base64 characters of a token: Buffer.from(s, "base64") skips the
\* characters that are not base64
Base64Of(t) ==
    IF t = "data:image/" THEN <<"dataimage/">>
    ELSE IF t = ";base64," THEN <<"base64">>
    ELSE IF t = "!" THEN <<>>
    ELSE <<t>>

\* Buffer.from(base64Data, "base64"), as the base64 text it decodes
RECURSIVE DecodeBase64(_)
DecodeBase64(s) ==
    IF s = <<>> THEN <<>> ELSE Base64Of(Head(s)) \o DecodeBase64(Tail(s))

\* crypto.randomBytes(16): samples of the byte sequences it can return
RandomSamples ==
    {[i \in 1..RandomByteCount |-> b] : b \in {0, 9, 171, 255}}
        \cup {[i \in 1..RandomByteCount |-> (i * 17) % 256]}

HexDigits == <<"0", "1", "2", "3", "4", "5", "6", "7", "8", "9",
               "a", "b", "c", "d", "e", "f">>

\* a byte as Number.prototype.toString(16) writes it, without padding
HexByteUnpadded(b) ==
    IF b < 16 THEN <<HexDigits[b + 1]>>
    ELSE <<HexDigits[(b \div 16) + 1], HexDigits[(b % 16) + 1]>>

\* one byte of Buffer.toString("hex"): two lowercase digits
HexByte(b) == <<HexDigits[(b \div 16) + 1], HexDigits[(b % 16) + 1]>>

\* randomBytes(16).toString("hex")
RECURSIVE ToHex(_)
ToHex(bytes) ==
    IF bytes = <<>> THEN <<>> ELSE HexByte(Head(bytes)) \o ToHex(Tail(bytes))

\* `${randomName}.png`, as a sequence of characters
FileNameOf(bytes) == ToHex(bytes) \o <<".", "p", "n", "g">>

NoResponse == [status |-> 0, success |-> FALSE, fileName |-> <<>>, error |-> ""]
\* NextResponse.json({ success: true, fileName })
SuccessResponse(name) ==
    [status |-> 200, success |-> TRUE, fileName |-> name, error |-> ""]
\* NextResponse.json({ success: false, error: ... }, { status: 500 })
FailureResponse ==
    [status |-> 500, success |-> FALSE, fileName |-> <<>>,
     error |-> "Failed to save image"]

(***************************************************************************)
(* State.                                                                  *)
(***************************************************************************)
VARIABLES
    \* which component this behaviour mounts, and whether it is still mounted
    view, mounted,
    \* useState stream, and the value the handlers of the last commit closed over
    stream, rStream,
    \* the video element's srcObject
    srcObject,
    \* the acquired streams whose tracks have not been stopped
    active,
    \* streams acquired so far (they are numbered 1..acquired)
    acquired,
    \* getUserMedia calls awaiting their result, and calls made so far
    gumPending, gumCalls,
    \* the two loadFromUri promises of loadModels, the calls of loadModels
    tinyLoad, exprLoad, loadCalls,
    \* useState modelsLoaded and its committed value, useState isVideoPlaying
    modelsLoaded, rModelsLoaded, isVideoPlaying,
    \* the run of the detection-loop effect in force; per run, the
    \* isVideoPlaying it closed over, its animationFrameId, and its inference
    \* calls in flight
    epoch, closPlaying, animId, calls,
    \* the pending requestAnimationFrame callbacks and the next handle
    rafs, nextRaf,
    \* the overlay canvas: its bitmap and its size
    canvas, canvasSize,
    \* inference calls started, the last result rendered and the text drawn
    \* for it, and whether a draw happened after the view was torn down
    inferStarted, lastDetection, lastText, lateDraw,
    \* useState capturedImage, savedFileName, isSaving, and committed values
    capturedImage, savedFileName, isSaving, rSavedFileName, rIsSaving,
    \* save requests in flight and sent so far, outcomes of those answered
    saves, saveCount, saveLog,
    \* for each save request sent, the retakes there had been when it was sent
    saveGen,
    \* retakes so far, and the value of acquired when retake last ran
    retakes, retakeMark,
    \* the save endpoint: the request body, the handler's position, the
    \* file name and buffer it computed, its response, the output directory
    pBody, pPc, pFileName, pBuffer, pResponse, pFiles

camVars == <<view, mounted, stream, rStream, srcObject, active, acquired,
             gumPending, gumCalls>>
loadVars == <<tinyLoad, exprLoad, loadCalls, modelsLoaded, rModelsLoaded>>
loopVars == <<isVideoPlaying, epoch, closPlaying, animId, calls, rafs,
              nextRaf, inferStarted>>
drawVars == <<canvas, canvasSize, lastDetection, lastText, lateDraw>>
capVars == <<capturedImage, savedFileName, isSaving, rSavedFileName,
             rIsSaving, saves, saveCount, saveLog, saveGen, retakes,
             retakeMark>>
postVars == <<pBody, pPc, pFileName, pBuffer, pResponse, pFiles>>
vars == <<camVars, loadVars, loopVars, drawVars, capVars, postVars>>

\* capturedImage: null, or the data URL of a frame of a stream (live: the
\* stream's tracks were running when the frame was drawn)
NullImage == [taken |-> FALSE, stream |-> NoStream, live |-> FALSE]
\* canvas.toDataURL of a canvas without pixels ("data:,")
EmptyFrame == [taken |-> TRUE, stream |-> NoStream, live |-> FALSE]

\* the stream the mount effects closed over: the first render's useState value
MountClosureStream == NoStream

\* videoRef.current: the video element is rendered by the detection view always
\* and by the capture view in camera mode only
VideoRef == mounted /\ (view = "capture" => capturedImage = NullImage)
CanvasRef == mounted

\* the video element's videoWidth and videoHeight
VideoSize == IF srcObject = NoStream THEN <<0, 0>> ELSE <<VideoWidth, VideoHeight>>

\* stream.getTracks().forEach((track) => track.stop()) under if (stream)
StopTracks(s, act) == IF s # NoStream THEN act \ {s} ELSE act

\* no request has reached the save endpoint
PostIdle ==
    /\ pBody = [kind |-> "notjson", image |-> <<>>]
    /\ pPc = "idle"
    /\ pFileName = <<>>
    /\ pBuffer = <<>>
    /\ pResponse = NoResponse
    /\ pFiles = {}

\* a view after its first render and its mount effects
\* a webcam effect that starts the video on every run
WebcamEffectCallsAlways(ml) == 1

\* the getUserMedia calls of one run of the detection view's webcam effect:
\* if (modelsLoaded) startVideo()
WebcamEffectCalls(ml) == IF ml THEN 1 ELSE 0

ViewInit ==
    /\ mounted = (view # "none")
    /\ stream = NoStream /\ rStream = NoStream
    /\ srcObject = NoStream
    /\ active = {}
    /\ acquired = 0
    \* the capture view's mount effect has called startVideo; the detection
    \* view's webcam effect has run once, with modelsLoaded false
    /\ gumPending = (IF view = "capture" THEN 1
                     ELSE IF view = "detection" THEN WebcamEffectCalls(FALSE)
                     ELSE 0)
    /\ gumCalls = gumPending
    \* the detection view's mount effect has called loadModels
    /\ tinyLoad = (IF view = "detection" THEN "pending" ELSE "unused")
    /\ exprLoad = (IF view = "detection" THEN "pending" ELSE "unused")
    \* the model-load effect has run once, on mount, and called loadModels
    /\ loadCalls = (IF view = "detection" THEN 1 ELSE 0)
    /\ modelsLoaded = FALSE /\ rModelsLoaded = FALSE
    /\ isVideoPlaying = FALSE
    \* the detection-loop effect has run once, with both flags false
    /\ epoch = 1
    /\ closPlaying = <<FALSE>>
    /\ animId = <<0>>
    /\ calls = <<0>>
    /\ rafs = {}
    /\ nextRaf = 1
    /\ canvas = BlankCanvas
    /\ canvasSize = <<300, 150>>
    /\ inferStarted = 0
    /\ lastDetection = NoFace
    /\ lastText = ""
    /\ lateDraw = FALSE
    /\ capturedImage = NullImage /\ savedFileName = NoFile /\ isSaving = FALSE
    /\ rSavedFileName = NoFile /\ rIsSaving = FALSE
    /\ saves = {}
    /\ saveCount = 0
    /\ saveLog = <<>>
    /\ saveGen = <<>>
    /\ retakes = 0
    /\ retakeMark = 0

Init ==
    /\ view \in {"detection", "capture"}
    /\ ViewInit
    /\ PostIdle


(***************************************************************************)
(* Camera acquisition, shared by both views.                               *)
(***************************************************************************)
\* a variant of the continuation that records the call's stream whatever
\* the outcome of the call
StreamAfterGumUnchecked(ok, ref, new, prev) == IF ref THEN new ELSE prev

\* the stream startVideo leaves recorded after its await: the new stream when
\* the call resolved and the video element is there, the previous value when
\* the call was rejected (the catch block only logs) or the element is gone
StreamAfterGum(ok, ref, new, prev) == IF ok /\ ref THEN new ELSE prev

\* getUserMedia settles and startVideo continues after its await: a stream
\* that arrives is bound and recorded only if the video element is there;
\* a rejection is caught and logged
GumSettles(ok) ==
    /\ gumPending > 0
    /\ gumPending' = gumPending - 1
    /\ acquired' = (IF ok THEN acquired + 1 ELSE acquired)
    /\ active' = (IF ok THEN active \cup {acquired + 1} ELSE active)
    /\ srcObject' = StreamAfterGum(ok, VideoRef, acquired + 1, srcObject)
    /\ stream' = StreamAfterGum(ok, VideoRef, acquired + 1, stream)
    /\ UNCHANGED <<view, mounted, rStream, gumCalls>>
    /\ UNCHANGED <<loadVars, loopVars, drawVars, capVars>>
    /\ UNCHANGED postVars

(***************************************************************************)
(* Detection view: model loading.                                          *)
(***************************************************************************)
\* Promise.allSettled over the two loads: fulfilled once both have settled
LoadOutcomeAllSettled(t, e) ==
    IF t = "pending" \/ e = "pending" THEN "pending" ELSE "fulfilled"

\* Promise.all over the two loads: rejected as soon as one load fails,
\* fulfilled when both have loaded
LoadOutcome(t, e) ==
    IF t = "failed" \/ e = "failed" THEN "rejected"
    ELSE IF t = "loaded" /\ e = "loaded" THEN "fulfilled"
    ELSE "pending"

\* a dependency array that names modelsLoaded
LoadEffectDepsModels(ml, s, playing) == <<ml>>

\* the dependency array of the model-load effect: [], whatever the state
LoadEffectDeps(ml, s, playing) == <<>>

\* the calls of loadModels after a commit: React runs an effect again, and
\* the effect calls loadModels, when the values of its dependency array
\* differ from those of the commit before
LoadCallsAfter(n, before, after) == IF before # after THEN n + 1 ELSE n

\* a flag that follows the load that settled last
ModelsLoadedPerLoad(prev, ok, before, after) == ok

\* loadModels after its await: setModelsLoaded(true) when Promise.all is
\* fulfilled, nothing but a log in the catch
ModelsLoadedAfter(prev, ok, before, after) ==
    IF before = "pending" /\ after = "fulfilled" THEN TRUE ELSE prev

\* one of the two loadFromUri promises settles
ModelLoadSettles(m, ok) ==
    /\ view = "detection"
    /\ (IF m = "tiny" THEN tinyLoad ELSE exprLoad) = "pending"
    /\ LET res == IF ok THEN "loaded" ELSE "failed"
           t == IF m = "tiny" THEN res ELSE tinyLoad
           e == IF m = "tiny" THEN exprLoad ELSE res
       IN  /\ tinyLoad' = t
           /\ exprLoad' = e
           \* a state update of an unmounted component is dropped
           /\ modelsLoaded' =
                 (IF mounted
                  THEN ModelsLoadedAfter(modelsLoaded, ok,
                                         LoadOutcome(tinyLoad, exprLoad),
                                         LoadOutcome(t, e))
                  ELSE modelsLoaded)
    /\ UNCHANGED <<loadCalls, rModelsLoaded>>
    /\ UNCHANGED <<camVars, loopVars, drawVars, capVars>>
    /\ UNCHANGED postVars

(***************************************************************************)
(* Detection view: the detection loop.                                     *)
(***************************************************************************)
\* the loop effect's cleanup: cancelAnimationFrame(animationFrameId) if set
CancelFrame(id, rs) == IF id # 0 THEN {r \in rs : r.id # id} ELSE rs

\* detectExpressions before its await: the refs and the isVideoPlaying the
\* effect run closed over
DetectGuard(playing) == VideoRef /\ CanvasRef /\ playing

\* a start condition that asks for the models and the elements only
LoopStartsOnModels(ml, playing) == ml /\ VideoRef /\ CanvasRef

\* whether an effect run makes its first inference call: the effect calls
\* detectExpressions if (modelsLoaded && isVideoPlaying), and
\* detectExpressions returns before its await unless its guard holds
LoopStarts(ml, playing) == ml /\ playing /\ DetectGuard(playing)

\* the loop effect runs again for changed dependencies: the cleanup of the
\* run before, then a run with its own animationFrameId that starts
\* detectExpressions if both flags are true
RunLoopEffect(ml, playing) ==
    LET starts == LoopStarts(ml, playing)
    IN  /\ (starts => inferStarted < MaxFrames)
        /\ rafs' = CancelFrame(animId[epoch], rafs)
        /\ epoch' = epoch + 1
        /\ closPlaying' = Append(closPlaying, playing)
        /\ animId' = Append(animId, 0)
        /\ calls' = Append(calls, IF starts THEN 1 ELSE 0)
        /\ inferStarted' = inferStarted + (IF starts THEN 1 ELSE 0)
        /\ nextRaf' = nextRaf

\* a play handler that flips the flag
PlayingToggled(prev) == ~prev

\* setIsVideoPlaying(true)
PlayingAfterPlay(prev) == TRUE

\* x || d
OrDefault(x, d) == IF x = 0 THEN d ELSE x

\* the video element's play event: handleVideoPlay, then the synchronous
\* render of a discrete event and the loop effect if isVideoPlaying changed
HandleVideoPlay ==
    /\ view = "detection" /\ mounted
    /\ srcObject # NoStream
    /\ isVideoPlaying' = PlayingAfterPlay(isVideoPlaying)
    \* assigning a canvas's width or height resets its bitmap
    /\ canvasSize' = <<OrDefault(VideoSize[1], VideoWidth),
                       OrDefault(VideoSize[2], VideoHeight)>>
    /\ canvas' = BlankCanvas
    /\ IF isVideoPlaying' # isVideoPlaying
       THEN RunLoopEffect(rModelsLoaded, isVideoPlaying')
       ELSE UNCHANGED <<epoch, closPlaying, animId, calls, rafs, nextRaf,
                        inferStarted>>
    /\ loadCalls' =
          LoadCallsAfter(loadCalls,
                         LoadEffectDeps(rModelsLoaded, rStream, isVideoPlaying),
                         LoadEffectDeps(rModelsLoaded, rStream,
                                        isVideoPlaying'))
    /\ UNCHANGED <<lastDetection, lastText, lateDraw>>
    /\ UNCHANGED <<tinyLoad, exprLoad, modelsLoaded, rModelsLoaded>>
    /\ UNCHANGED <<camVars, capVars>>
    /\ UNCHANGED postVars

\* a continuation that requests the next frame twice
NextFrameTwice(e, id, rs) ==
    rs \cup {[id |-> id, ep |-> e], [id |-> 0 - id, ep |-> e]}

\* animationFrameId = requestAnimationFrame(detectExpressions), the last
\* statement of detectExpressions: one pending frame of effect run e
NextFrame(e, id, rs) == rs \cup {[id |-> id, ep |-> e]}

\* an inference call of effect run e resolves with detection d:
\* detectExpressions after its await, to the requestAnimationFrame
InferenceSettles(e, d) ==
    /\ view = "detection"
    /\ e \in 1..epoch
    /\ calls[e] > 0
    /\ calls' = [calls EXCEPT ![e] = @ - 1]
    /\ IF d # NoFace
       THEN LET text == LabelText(DominantExpression(d.expressions))
            IN  /\ canvas' = [box |-> TRUE, text |-> text]
                \* faceapi.matchDimensions(canvas, video, true)
                /\ canvasSize' = VideoSize
                /\ lastText' = text
                /\ lateDraw' = (lateDraw \/ ~mounted)
       ELSE /\ lastText' = ""
            /\ UNCHANGED <<canvas, canvasSize, lateDraw>>
    /\ lastDetection' = d
    /\ rafs' = NextFrame(e, nextRaf, rafs)
    /\ animId' = [animId EXCEPT ![e] = nextRaf]
    /\ nextRaf' = nextRaf + 1
    /\ UNCHANGED <<isVideoPlaying, epoch, closPlaying, inferStarted>>
    /\ UNCHANGED <<camVars, loadVars, capVars>>
    /\ UNCHANGED postVars

\* an inference call of effect run e rejects: detectExpressions has no
\* try/catch, so its promise rejects and nothing after the await runs
InferenceRejects(e) ==
    /\ view = "detection"
    /\ e \in 1..epoch
    /\ calls[e] > 0
    /\ calls' = [calls EXCEPT ![e] = @ - 1]
    /\ UNCHANGED <<isVideoPlaying, epoch, closPlaying, animId, rafs, nextRaf,
                   inferStarted>>
    /\ UNCHANGED <<camVars, loadVars, drawVars, capVars>>
    /\ UNCHANGED postVars

\* a requestAnimationFrame callback fires: detectExpressions of its effect run
FrameFires(r) ==
    /\ r \in rafs
    /\ LET starts == DetectGuard(closPlaying[r.ep])
       IN  /\ (starts => inferStarted < MaxFrames)
           /\ rafs' = rafs \ {r}
           /\ calls' = [calls EXCEPT ![r.ep] = @ + (IF starts THEN 1 ELSE 0)]
           /\ inferStarted' = inferStarted + (IF starts THEN 1 ELSE 0)
    /\ UNCHANGED <<isVideoPlaying, epoch, closPlaying, animId, nextRaf>>
    /\ UNCHANGED <<camVars, loadVars, drawVars, capVars>>
    /\ UNCHANGED postVars


(***************************************************************************)
(* Capture view.                                                           *)
(***************************************************************************)
\* a capture that leaves the saved name as it was
SavedNameKept(prev) == prev

\* setSavedFileName(null), in the same handler as setCapturedImage
SavedNameAfterCapture(prev) == NoFile

\* capturePhoto (the Take Photo button of camera mode), then the
\* synchronous render into review mode, which removes the video element
CapturePhoto ==
    /\ view = "capture" /\ mounted
    /\ capturedImage = NullImage
    /\ VideoRef /\ CanvasRef
    \* the canvas takes the video's size; drawImage and toDataURL
    /\ capturedImage' =
          (IF VideoSize = <<0, 0>> THEN EmptyFrame
           ELSE [taken |-> TRUE, stream |-> srcObject,
                 live |-> srcObject \in active])
    /\ savedFileName' = SavedNameAfterCapture(savedFileName)
    /\ rSavedFileName' = SavedNameAfterCapture(savedFileName)
    /\ srcObject' = NoStream
    /\ UNCHANGED <<view, mounted, stream, rStream, active, acquired,
                   gumPending, gumCalls>>
    /\ UNCHANGED <<isSaving, rIsSaving, saves, saveCount, saveLog, saveGen,
                   retakes,
                   retakeMark>>
    /\ UNCHANGED <<loadVars, loopVars, drawVars>>
    /\ UNCHANGED postVars

\* retake (the Retake Photo button of review mode): the two resets, then
\* startVideo up to its await (it stops the stream the handler closed over
\* and calls getUserMedia), then the synchronous render into camera mode
Retake ==
    /\ view = "capture" /\ mounted
    /\ capturedImage # NullImage
    /\ gumCalls < MaxGum
    /\ capturedImage' = NullImage
    /\ savedFileName' = NoFile
    /\ rSavedFileName' = NoFile
    /\ active' = StopTracks(rStream, active)
    /\ gumPending' = gumPending + 1
    /\ gumCalls' = gumCalls + 1
    /\ retakes' = retakes + 1
    /\ retakeMark' = acquired
    /\ UNCHANGED <<view, mounted, stream, rStream, srcObject, acquired>>
    /\ UNCHANGED <<isSaving, rIsSaving, saves, saveCount, saveLog, saveGen>>
    /\ UNCHANGED <<loadVars, loopVars, drawVars>>
    /\ UNCHANGED postVars

\* a Save Photo button that is never disabled
SaveEnabledInReview(img, saving, name) == img # NullImage

\* savePhoto can be invoked: the Save Photo button is rendered in review
\* mode only and carries disabled={isSaving || savedFileName !== null}, and
\* savePhoto returns at once without an image
SaveEnabled(img, saving, name) ==
    img # NullImage /\ ~saving /\ name = NoFile

\* savePhoto (the Save Photo button, disabled while the committed isSaving or
\* savedFileName say so) up to its await of fetch
SavePhoto ==
    /\ view = "capture" /\ mounted
    /\ SaveEnabled(capturedImage, rIsSaving, rSavedFileName)
    /\ saveCount < MaxSaves
    /\ isSaving' = TRUE
    /\ rIsSaving' = TRUE
    /\ saves' = saves \cup {[id |-> saveCount + 1, image |-> capturedImage]}
    /\ saveCount' = saveCount + 1
    /\ saveGen' = Append(saveGen, retakes)
    /\ UNCHANGED <<capturedImage, savedFileName, rSavedFileName, saveLog,
                   retakes, retakeMark>>
    /\ UNCHANGED <<camVars, loadVars, loopVars, drawVars>>
    /\ UNCHANGED postVars

\* a variant of the continuation that keeps a request that did not save in
\* flight, to be answered again
SavesAfterSettleRetry(req, outcome, ss) ==
    IF outcome = "saved" THEN ss \ {req} ELSE ss

\* the requests in flight once savePhoto has continued after its awaits: the
\* else branch and the catch block only log, so the request is over whatever
\* its outcome
SavesAfterSettle(req, outcome, ss) == ss \ {req}

\* the fetch of a save request settles and savePhoto continues: "saved" is a
\* response with success true and a file name, "failed" one with success
\* false, "error" a rejected fetch or a body that is not JSON
SaveSettles(req, outcome) ==
    /\ req \in saves
    /\ saves' = SavesAfterSettle(req, outcome, saves)
    /\ saveLog' = Append(saveLog, outcome)
    /\ UNCHANGED saveGen
    \* a state update of an unmounted component is dropped
    /\ savedFileName' =
          (IF outcome = "saved" /\ mounted THEN req.id ELSE savedFileName)
    /\ isSaving' = (IF mounted THEN FALSE ELSE isSaving)
    /\ UNCHANGED <<capturedImage, rSavedFileName, rIsSaving, saveCount,
                   retakes, retakeMark>>
    /\ UNCHANGED <<camVars, loadVars, loopVars, drawVars>>
    /\ UNCHANGED postVars

(***************************************************************************)
(* Rendering and teardown.                                                 *)
(***************************************************************************)
\* the render React schedules for state set outside an event handler: the
\* handlers close over the new state; in the detection view the effects that
\* depend on modelsLoaded run (the webcam effect calls startVideo once the
\* models are loaded, the loop effect runs again)
Render ==
    /\ mounted
    /\ <<rModelsLoaded, rStream, rSavedFileName, rIsSaving>>
          # <<modelsLoaded, stream, savedFileName, isSaving>>
    /\ rModelsLoaded' = modelsLoaded
    /\ rStream' = stream
    /\ rSavedFileName' = savedFileName
    /\ rIsSaving' = isSaving
    /\ IF rModelsLoaded # modelsLoaded
       THEN /\ gumCalls + WebcamEffectCalls(modelsLoaded) <= MaxGum
            /\ gumPending' = gumPending + WebcamEffectCalls(modelsLoaded)
            /\ gumCalls' = gumCalls + WebcamEffectCalls(modelsLoaded)
            /\ RunLoopEffect(modelsLoaded, isVideoPlaying)
       ELSE UNCHANGED <<gumPending, gumCalls, epoch, closPlaying, animId,
                        calls, rafs, nextRaf, inferStarted>>
    /\ UNCHANGED <<view, mounted, stream, srcObject, active, acquired>>
    /\ loadCalls' =
          (IF view = "detection"
           THEN LoadCallsAfter(loadCalls,
                               LoadEffectDeps(rModelsLoaded, rStream,
                                              isVideoPlaying),
                               LoadEffectDeps(modelsLoaded, stream,
                                              isVideoPlaying))
           ELSE loadCalls)
    /\ UNCHANGED <<tinyLoad, exprLoad, modelsLoaded, isVideoPlaying>>
    /\ UNCHANGED <<capturedImage, savedFileName, isSaving, saves, saveCount,
                   saveLog, saveGen, retakes, retakeMark>>
    /\ UNCHANGED drawVars
    /\ UNCHANGED postVars

\* the view is torn down: the cleanup of the mount effect, which stops the
\* stream it closed over, and the cleanup of the loop effect; the refs
\* become null
Unmount ==
    /\ mounted
    /\ mounted' = FALSE
    /\ active' = StopTracks(MountClosureStream, active)
    /\ rafs' = CancelFrame(animId[epoch], rafs)
    /\ UNCHANGED <<view, stream, rStream, srcObject, acquired, gumPending,
                   gumCalls>>
    /\ UNCHANGED <<isVideoPlaying, epoch, closPlaying, animId, calls, nextRaf,
                   inferStarted>>
    /\ UNCHANGED <<loadVars, drawVars, capVars>>
    /\ UNCHANGED postVars

Next ==
    \/ \E ok \in BOOLEAN : GumSettles(ok)
    \/ \E m \in {"tiny", "expr"}, ok \in BOOLEAN : ModelLoadSettles(m, ok)
    \/ HandleVideoPlay
    \/ \E e \in 1..epoch, d \in Detections : InferenceSettles(e, d)
    \/ \E e \in 1..epoch : InferenceRejects(e)
    \/ \E r \in rafs : FrameFires(r)
    \/ CapturePhoto
    \/ Retake
    \/ SavePhoto
    \/ \E req \in saves, outcome \in {"saved", "failed", "error"} :
          SaveSettles(req, outcome)
    \/ Render
    \/ Unmount

Spec == Init /\ [][Next]_vars


(***************************************************************************)
(* Save endpoint: POST /api/save-image.                                    *)
(***************************************************************************)
\* a request with some body has arrived and no view is involved
PostInit ==
    /\ view = "none"
    /\ ViewInit
    /\ pBody \in Bodies
    /\ pPc = "received"
    /\ pFileName = <<>>
    /\ pBuffer = <<>>
    /\ pResponse = NoResponse
    /\ pFiles = {}

\* POST to its await of writeFile: req.json() throws on a body that is not
\* JSON, the destructuring throws on null, image.replace throws on an image
\* that is no string; the catch answers 500
PostPrepare(bytes) ==
    /\ pPc = "received"
    /\ IF pBody.kind = "string"
       THEN /\ pFileName' = FileNameOf(bytes)
            /\ pBuffer' = DecodeBase64(StripPrefix(pBody.image))
            /\ pPc' = "writing"
            /\ pResponse' = pResponse
       ELSE /\ pPc' = "failed"
            /\ pResponse' = FailureResponse
            /\ UNCHANGED <<pFileName, pBuffer>>
    /\ UNCHANGED <<pBody, pFiles>>
    /\ UNCHANGED <<camVars, loadVars, loopVars, drawVars, capVars>>

\* writeFile settles: "ok" wrote the whole buffer, "nofile" failed before
\* the file was created, "partial" failed after a part was written
PostWriteSettles(outcome) ==
    /\ pPc = "writing"
    /\ pFiles' =
          (IF outcome = "nofile" THEN pFiles
           ELSE pFiles \cup {[name |-> pFileName, data |-> pBuffer,
                              complete |-> (outcome = "ok")]})
    /\ pPc' = (IF outcome = "ok" THEN "saved" ELSE "failed")
    /\ pResponse' =
          (IF outcome = "ok" THEN SuccessResponse(pFileName)
           ELSE FailureResponse)
    /\ UNCHANGED <<pBody, pFileName, pBuffer>>
    /\ UNCHANGED <<camVars, loadVars, loopVars, drawVars, capVars>>

PostNext ==
    \/ \E bytes \in RandomSamples : PostPrepare(bytes)
    \/ \E outcome \in {"ok", "nofile", "partial"} : PostWriteSettles(outcome)

PostSpec == PostInit /\ [][PostNext]_vars


(***************************************************************************)
(* Properties.                                                             *)
(***************************************************************************)
RECURSIVE SumSeq(_)
SumSeq(q) == IF q = <<>> THEN 0 ELSE Head(q) + SumSeq(Tail(q))

\* inference calls started and not finished, over all runs of the loop effect
InFlight == SumSeq(calls)

\* C1: in the capture view at most one stream with running tracks exists at
\* any time, and a running stream is the view's current stream.
OneActiveStream ==
    view = "capture" => Cardinality(active) <= 1 /\ active \subseteq {stream}

\* C2: the detection loop never has two inference calls in flight.
SingleInference == InFlight <= 1

\* C2 witness: the loop is in a later iteration, with its call in flight.
SingleInferenceWitness == inferStarted >= 2 /\ InFlight = 1

\* C3: after the detection view is torn down with an inference call in
\* flight, no draw is performed on the canvas.
NoDrawAfterTeardown == ~lateDraw

\* C4: the teardown of a view stops every stream the view has acquired.
TeardownStopsStreams == [][(mounted /\ ~mounted') => active' = {}]_vars

\* C5: modelsLoaded starts false and, once true, is never false again.
ModelsLoadedMonotonic ==
    ~modelsLoaded /\ [][modelsLoaded => modelsLoaded']_vars

\* C5 witness: the models were loaded and the view went on to run its loop.
ModelsLoadedWitness == modelsLoaded /\ inferStarted >= 1

\* a well-formed PNG data URI: data:image/png;base64, and a base64 payload
WellFormedPng(s) ==
    /\ Len(s) >= 4
    /\ s[1] = "data:image/" /\ s[2] = "png" /\ s[3] = ";base64,"
    /\ \A i \in 4..Len(s) : s[i] \in {"png", "w", "+"}

LowerHexChars ==
    {"0", "1", "2", "3", "4", "5", "6", "7", "8", "9", "a", "b", "c", "d",
     "e", "f"}

\* ^[0-9a-f]{32}\.png$
IsFileName(n) ==
    /\ Len(n) = 36
    /\ \A i \in 1..32 : n[i] \in LowerHexChars
    /\ SubSeq(n, 33, 36) = <<".", "p", "n", "g">>

\* the handler has answered the request
PostAnswered == pPc \in {"saved", "failed"}
\* writeFile wrote the whole buffer
WriteSucceeded == \E f \in pFiles : f.complete
IsSuccessResponse(r) ==
    r.status = 200 /\ r.success /\ IsFileName(r.fileName) /\ r.error = ""
IsFailureResponse(r) ==
    r.status = 500 /\ ~r.success /\ r.fileName = <<>> /\ r.error # ""

\* C6, as claimed: a well-formed PNG data URI whose write succeeds is
\* answered with success and a file name of 32 lowercase hex digits and
\* ".png"; every other body is answered with success false and status 500.
SaveImageContract ==
    PostAnswered =>
        /\ (pBody.kind = "string" /\ WellFormedPng(pBody.image)
               /\ WriteSucceeded
              => IsSuccessResponse(pResponse))
        /\ (~(pBody.kind = "string" /\ WellFormedPng(pBody.image))
              => IsFailureResponse(pResponse))

\* C6, amended: every body with a string image whose write succeeds is
\* answered with success and such a file name; a body that is not JSON, is
\* null or has no string image, and every failed write, is answered with
\* success false and status 500.
SaveImageContractAmended ==
    PostAnswered =>
        /\ (pBody.kind = "string" /\ WriteSucceeded
              => IsSuccessResponse(pResponse))
        /\ (pBody.kind # "string" => IsFailureResponse(pResponse))
        /\ (~WriteSucceeded => IsFailureResponse(pResponse))

\* C6 witness: a well-formed PNG data URI was saved and answered.
SaveImageWitness ==
    /\ pPc = "saved"
    /\ pBody.kind = "string" /\ WellFormedPng(pBody.image)
    /\ pResponse.success

\* Math.round(c * 100) of the confidences of ConfValues, worked by hand:
\* 0.05 -> 5, 0.455 -> 45.5 -> 46, 0.9 -> 90
ExpectedPercent == (50 :> "5") @@ (455 :> "46") @@ (900 :> "90")

\* C7: the text rendered for a detection is "<label>: <percent>%" of an
\* entry whose confidence no other entry exceeds; the mapping {happy: 0.9,
\* neutral: 0.05, sad: 0.05} is rendered as "happy: 90%".
DominantLabelRendered ==
    lastDetection # NoFace =>
        LET conf == lastDetection.expressions
        IN  /\ \E i \in 1..Len(Labels) :
                  /\ \A j \in 1..Len(Labels) : conf[i] >= conf[j]
                  /\ lastText = Labels[i] \o ": " \o ExpectedPercent[conf[i]] \o "%"
            /\ (conf = <<50, 900, 50>> => lastText = "happy: 90%")

\* C7 witness: the mapping of the example was rendered.
DominantLabelWitness ==
    /\ lastDetection # NoFace
    /\ lastDetection.expressions = <<50, 900, 50>>
    /\ canvas.text = "happy: 90%"

\* C8: an iteration whose result is "no face found" leaves the canvas with
\* no box and no text.
NoFaceLeavesCanvasClear ==
    [][(nextRaf' > nextRaf /\ lastDetection' = NoFace)
          => canvas' = BlankCanvas]_vars

\* C9: retake resets capturedImage and savedFileName and calls getUserMedia,
\* and a capturePhoto after a retake records a frame of a running stream
\* acquired since that retake.
CaptureAfterRetakeIsLive ==
    [][/\ (retakes' > retakes =>
              /\ capturedImage' = NullImage /\ savedFileName' = NoFile
              /\ gumCalls' = gumCalls + 1)
       /\ (retakes > 0 /\ capturedImage = NullImage
              /\ capturedImage' # NullImage =>
              /\ capturedImage' # EmptyFrame
              /\ capturedImage'.live
              /\ capturedImage'.stream > retakeMark)]_vars

\* the "Loading models..." overlay is rendered
LoadingOverlay == ~rModelsLoaded

\* C10: once one of the two model loads has failed, modelsLoaded is false,
\* no inference call has been started, the loop effect has started nothing
\* and the view shows its loading overlay.
FailClosed ==
    (tinyLoad = "failed" \/ exprLoad = "failed") =>
        /\ ~modelsLoaded
        /\ LoadingOverlay
        /\ inferStarted = 0 /\ InFlight = 0
        /\ rafs = {} /\ nextRaf = 1

\* C10 witness: one load failed and the other one succeeded after it.
FailClosedWitness ==
    /\ tinyLoad = "failed" /\ exprLoad = "loaded"
    /\ ~modelsLoaded

\* C11: an inference call that ends, by a result or by a rejection, is
\* followed by the request of the next frame: a rejected pass does not end
\* the loop.
RejectedFrameContinues == [][InFlight' < InFlight => nextRaf' > nextRaf]_vars

\* C12: a getUserMedia call that fails is contained in startVideo, in either
\* view: the step that settles it records no stream and binds none, starts
\* and stops no track, and leaves the view mounted with all of its other
\* state as it was.
GumFailureContained ==
    [][(gumPending' < gumPending /\ acquired' = acquired)
        => /\ stream' = stream /\ srcObject' = srcObject /\ active' = active
           /\ rStream' = rStream /\ mounted' = mounted /\ view' = view
           /\ UNCHANGED <<loadVars, loopVars, drawVars, capVars>>]_vars

\* a call has failed in a mounted view that holds a stream of another call
GumFailureWitness ==
    /\ gumCalls > acquired + gumPending
    /\ mounted
    /\ stream # NoStream

\* C13: a save that fails (a response without success, a rejected fetch or
\* a body that is not JSON) leaves the captured image as it was and
\* savedFileName null, puts isSaving back to false and issues no request of
\* its own; every request comes from one invocation of savePhoto, so the
\* invocations are the requests answered plus the requests in flight.
FailedSaveNoRetry ==
    [][/\ saveCount' = Len(saveLog') + Cardinality(saves')
       /\ (/\ Len(saveLog') > Len(saveLog)
           /\ saveLog'[Len(saveLog')] # "saved"
           /\ mounted)
          => /\ capturedImage' = capturedImage
             /\ savedFileName' = NoFile
             /\ isSaving' = FALSE
             /\ saveCount' = saveCount
             /\ Cardinality(saves') = Cardinality(saves) - 1]_vars

\* a first save has failed and the user has invoked savePhoto again
FailedSaveWitness ==
    /\ saveCount = 2
    /\ Len(saveLog) >= 1
    /\ saveLog[1] = "failed"
    /\ mounted
    /\ ~isSaving

\* the entries of a mapping that share its highest confidence
TopEntries(conf) ==
    {i \in 1..Len(Labels) : \A j \in 1..Len(Labels) : conf[i] >= conf[j]}

\* the text the renderer writes for entry i of a mapping
TextOfEntry(conf, i) == Labels[i] \o ": " \o ExpectedPercent[conf[i]] \o "%"

\* C14 as stated: when several entries share the highest confidence, the
\* label rendered is that of the first of them in iteration order.
TieFirstWins ==
    lastDetection # NoFace =>
        LET conf == lastDetection.expressions
            first == CHOOSE i \in TopEntries(conf) :
                        \A j \in TopEntries(conf) : i <= j
        IN  lastText = TextOfEntry(conf, first)

\* C14, amended: when several entries share the highest confidence, the
\* label rendered is that of the last of them in iteration order (the
\* reducer replaces its accumulator unless it is strictly greater).
TieLastWins ==
    lastDetection # NoFace =>
        LET conf == lastDetection.expressions
            last == CHOOSE i \in TopEntries(conf) :
                       \A j \in TopEntries(conf) : i >= j
        IN  lastText = TextOfEntry(conf, last)

\* the first two entries of a rendered mapping tie at the highest confidence
TieWitness ==
    /\ lastDetection # NoFace
    /\ lastDetection.expressions = <<900, 900, 50>>
    /\ canvas.text = "happy: 90%"

\* C15: once the loop effect's cleanup has run (on unmount or for changed
\* dependencies), no animation frame of the cancelled run is pending or
\* newly requested, so no detectExpressions callback of it can fire; this
\* covers a cleanup that runs while an inference call is in flight.
CancelledLoopIsSilent == \A r \in rafs : mounted /\ r.ep = epoch

\* C16: an inference call is started only while modelsLoaded and
\* isVideoPlaying are both true, and only by an effect run that has seen
\* isVideoPlaying true.
InferenceNeedsBothFlags ==
    [][inferStarted' > inferStarted
          => /\ modelsLoaded' /\ isVideoPlaying'
             /\ \E e \in 1..epoch' :
                   /\ calls'[e] > (IF e \in DOMAIN calls THEN calls[e] ELSE 0)
                   /\ closPlaying'[e]]_vars

\* an inference call is in flight with both flags true
InferenceStartedWitness ==
    /\ inferStarted >= 1
    /\ InFlight = 1
    /\ modelsLoaded /\ isVideoPlaying

\* C17: within an iteration the three steps happen in order: the result of
\* the inference call is obtained, it is rendered, and only then is the next
\* iteration scheduled.  The step that requests the next frame is the step
\* that took the result of a call and drew it; while a frame of an effect
\* run is pending none of its calls is in flight; and a call of a run that
\* is not the first of that run is started by a frame of that run firing.
\* So the rendering of iteration k is complete before the inference call of
\* iteration k + 1 starts.
IterationInOrder ==
    [][/\ nextRaf' > nextRaf
          => /\ InFlight' = InFlight - 1
             /\ lastDetection' # NoFace
                   => canvas' = [box |-> TRUE, text |-> lastText']
             /\ \E r \in rafs' \ rafs : calls'[r.ep] = calls[r.ep] - 1
       /\ \A r \in rafs' : calls'[r.ep] = 0
       /\ \A e \in DOMAIN calls :
             calls'[e] > calls[e]
                => /\ calls[e] = 0
                   /\ \E r \in rafs \ rafs' : r.ep = e]_vars

\* a second iteration's inference call is in flight after a first iteration
\* drew a face
SecondIterationWitness ==
    /\ inferStarted >= 2
    /\ InFlight = 1
    /\ nextRaf >= 2
    /\ lastDetection # NoFace
    /\ canvas = [box |-> TRUE, text |-> lastText]

\* C18: loadModels is called exactly once in the life of a detection view,
\* on mount, whatever re-renders the view goes through afterwards.
LoadModelsOnce == view = "detection" => loadCalls = 1

\* the view has re-rendered for modelsLoaded, for its stream and for
\* isVideoPlaying
RerenderedWitness ==
    /\ view = "detection"
    /\ loadCalls = 1
    /\ rModelsLoaded
    /\ rStream # NoStream
    /\ isVideoPlaying

\* C19: the step in which capturePhoto stores an image leaves savedFileName
\* null, in the state and in what is rendered; the view holds one image at
\* most, since an image is stored only when none is held; and an image that
\* is held changes only by being discarded by retake.
CaptureClearsSavedName ==
    [][/\ (capturedImage = NullImage /\ capturedImage' # NullImage)
          => savedFileName' = NoFile /\ rSavedFileName' = NoFile
       /\ (capturedImage # NullImage /\ capturedImage' # capturedImage)
          => capturedImage' = NullImage /\ retakes' = retakes + 1]_vars

\* an image is held that was taken after a retake, a save of an earlier
\* image has been answered with a file name, and no saved name is held
RecaptureWitness ==
    /\ capturedImage # NullImage
    /\ retakes >= 1
    /\ Len(saveLog) >= 1 /\ saveLog[1] = "saved"
    /\ saves = {}
    /\ savedFileName = NoFile
    /\ mounted

\* C20: a write that fails part-way leaves no partial file to be seen: every
\* file in the output directory holds the complete decoded image.
NoPartialFile == \A f \in pFiles : f.complete

\* the detection loop is running: the view is mounted and the current run of
\* the loop effect has an inference call in flight or a frame pending
LoopRunning ==
    mounted /\ (calls[epoch] > 0 \/ \E r \in rafs : r.ep = epoch)

\* C21: while the detection loop is running, the contents and the dimensions
\* of the overlay canvas change only in a step of the loop's own
\* continuation (the step that takes the result of an inference call); no
\* other handler or effect, handleVideoPlay included, changes them.
CanvasOnlyByRenderer ==
    [][(LoopRunning /\ <<canvas, canvasSize>>' # <<canvas, canvasSize>>)
          => InFlight' < InFlight]_vars

\* C22: in the capture view a saved name that is set belongs to the image
\* that is held: an image is held, and the name is the one returned by the
\* save of that image, a save sent since the last retake; a response that
\* arrives after a retake or a new capture marks no other image and no
\* absent image as saved.
SavedNameIsOfHeldImage ==
    (view = "capture" /\ savedFileName # NoFile)
       => /\ capturedImage # NullImage
          /\ saveGen[savedFileName] = retakes

\* C23: the step in which a getUserMedia call resolves either records the
\* new stream as the view's stream or leaves it with its tracks stopped,
\* also when the view has been torn down or its video element is not
\* mounted by then.
AcquiredStreamTracked ==
    [][acquired' > acquired
          => (stream' = acquired' \/ acquired' \notin active')]_vars

\* C24: in the capture view at most one save request is in flight at any
\* time, and savePhoto is invoked only when an image is held, isSaving is
\* false and savedFileName is null, so no request is sent for an image whose
\* saved name is set.
OneSaveInFlight ==
    [][/\ Cardinality(saves') <= 1
       /\ saveCount' > saveCount
          => /\ capturedImage # NullImage
             /\ ~isSaving
             /\ savedFileName = NoFile
             /\ saves = {}]_vars

\* a second save is in flight, sent after the first was answered
SecondSaveWitness ==
    /\ saveCount = 2
    /\ Cardinality(saves) = 1
    /\ Len(saveLog) = 1
    /\ mounted

\* C25: in the detection view getUserMedia is called only once modelsLoaded
\* is true (the flag never goes back to false), and at most once in the life
\* of the view.
CameraAfterModels ==
    view = "detection"
       => /\ gumCalls <= 1
          /\ gumCalls > 0 => modelsLoaded
          /\ gumPending > 0 => modelsLoaded

\* the one call was made, its stream plays and the loop has gone round, so
\* the view has re-rendered for every state it has
CameraOnceWitness ==
    /\ view = "detection"
    /\ gumCalls = 1
    /\ stream # NoStream /\ rStream = stream
    /\ isVideoPlaying
    /\ inferStarted >= 2

=============================================================================
